---- MODULE Spec2Model ----
(***************************************************************************)
(* Model of src/src/common/Turn.js (ag-drift): the Turn container, its     *)
(* event accumulators and the per-tick transition evolve().                *)
(*                                                                         *)
(* Numbers.  Positions and velocities are fixed-point integers in          *)
(* hundredths of a world unit (98 -> 9800).  Angles are integer multiples  *)
(* of PI/2 (the code only ever uses -PI/2 and steps of +-PI/2; 0 is the    *)
(* value resetBody writes).  Times (dt, laptimes) are in milliseconds.     *)
(* Sparse JS arrays (ships, events, bodies) are functions whose DOMAIN is   *)
(* the set of indices that hold a value.                                   *)
(***************************************************************************)
EXTENDS Integers, Sequences, FiniteSets, TLC

\* ------------------------------------------------------------------ bounds
NumSlots == 2          \* slots 0 .. NumSlots-1 are used by the callers
MaxTicks == 2          \* evolve calls per behaviour
MaxCalls == 2          \* event-recording calls per behaviour (Spec, SpecEvents)
MaxAdminCalls == 4     \* server-event calls per behaviour (SpecReserved)

Slots == 0 .. (NumSlots - 1)

\* --------------------------------------------- constants.js (not in src/)
FORCE == 10
CELL_EDGE == 2
MAX_LAPS == 1
FINISH_COUNTDOWN_S == 2
RESULTS_SCREEN_S == 2

IN_PROGRESS == "IN_PROGRESS"
FINISH_COUNTDOWN == "FINISH_COUNTDOWN"
RESULTS_SCREEN == "RESULTS_SCREEN"
GAME_STATE == {IN_PROGRESS, FINISH_COUNTDOWN, RESULTS_SCREEN}

SPAWN_PLAYER == "SPAWN_PLAYER"
DESTROY_PLAYER == "DESTROY_PLAYER"

\* mass given to every p2.Body the code creates
BodyMass == 5
\* the angle -Math.PI / 2, in quarter turns
StartAngle == -1

\* ------------------------------------------------------------ vec2 helpers
\* truncating division (the sign-symmetric rounding of fixed-point scaling)
TruncDiv(a, b) == IF a >= 0 THEN a \div b ELSE -((-a) \div b)

VecAdd(a, b) == <<a[1] + b[1], a[2] + b[2]>>

\* vec2.scale(out, v, 0.99)
AirDrag(v) == <<TruncDiv(v[1] * 99, 100), TruncDiv(v[2] * 99, 100)>>

\* vec2.rotate by q quarter turns: [c*x - s*y, s*x + c*y]
Rotate(v, q) ==
  CASE q % 4 = 0 -> v
    [] q % 4 = 1 -> <<-v[2], v[1]>>
    [] q % 4 = 2 -> <<-v[1], -v[2]>>
    [] q % 4 = 3 -> <<v[2], -v[1]>>

\* ------------------------------------------- PlayerInput.js (not in src/)
InputTypes == {"gas", "boost", "leanL", "leanR", "turnL", "turnR"}

\* new PlayerInput(): every flag false
NewPlayerInput == [t \in InputTypes |-> FALSE]

\* input.applyPlayerEvent(ev): level-set the flag the event names
applyPlayerEvent(input, ev) == [input EXCEPT ![ev.type] = ev.val]

RECURSIVE applyPlayerEvents(_, _)
\* playerEvents.forEach(input.applyPlayerEvent, input)
applyPlayerEvents(input, evs) ==
  IF evs = <<>> THEN input
  ELSE applyPlayerEvents(applyPlayerEvent(input, Head(evs)), Tail(evs))

\* -------------------------------------------------- Ship.js (not in src/)
hasFinishedRace(ship) == ship.lap > MAX_LAPS

\* ---------------------------------------------------------------- bodies
\* new p2.Body({mass: 5, position, angle: -Math.PI / 2, fixedRotation: true})
NewBody(pos) ==
  [position |-> pos, velocity |-> <<0, 0>>, angle |-> StartAngle,
   angularVelocity |-> 0, force |-> <<0, 0>>]

resetBody(body) ==
  [body EXCEPT !.position = <<0, 0>>, !.velocity = <<0, 0>>, !.angle = 0,
               !.angularVelocity = 0, !.force = <<0, 0>>]

positionForShipId(shipId) ==
  LET dx == shipId * 3
      dy == IF shipId % 2 = 0 THEN 0 ELSE -4
  IN  <<(98 + dx) * 100, (52 + dy) * 100>>

\* body.applyForceLocal(f): the force rotated into the world frame is added
applyForceLocal(body, f) ==
  [body EXCEPT !.force = VecAdd(body.force, Rotate(f, body.angle))]

\* world.step(dt / 1000) for one body of the pool: the engine is external;
\* it is modelled as the semi-implicit Euler step p2 performs on a free body
\* (fixedRotation: the angle is not integrated), forces cleared afterwards.
stepBody(body, dt) ==
  LET v == <<body.velocity[1] + TruncDiv(body.force[1] * 100 * dt, BodyMass * 1000),
             body.velocity[2] + TruncDiv(body.force[2] * 100 * dt, BodyMass * 1000)>>
      p == <<body.position[1] + TruncDiv(v[1] * dt, 1000),
             body.position[2] + TruncDiv(v[2] * dt, 1000)>>
  IN  [body EXCEPT !.velocity = v, !.position = p, !.force = <<0, 0>>]

worldStep(bodies, dt) == [i \in DOMAIN bodies |-> stepBody(bodies[i], dt)]

\* ------------------------------------------------------------- track grid
\* The map argument of evolve: a sparse grid of one-character cells.  ""
\* stands for an absent row or cell (undefined).  Rows alternate between
\* track rows, absent rows and rows of non-numeric cells; along a track row
\* the start zone (cj >= 49) is checkpoint 1 and, in the direction of travel
\* (-x), the cells repeat 3, 2, blank, 1: checkpoints descend and the jump
\* from 1 to 3 is the finish line.
Track(ci, cj) ==
  CASE ci % 4 = 1 -> ""
    [] ci % 4 = 3 -> "x"
    [] OTHER ->
         IF cj >= 49 THEN "1"
         ELSE CASE (49 - cj) % 4 = 1 -> "3"
                [] (49 - cj) % 4 = 2 -> "2"
                [] (49 - cj) % 4 = 3 -> " "
                [] OTHER -> "1"

\* Number(cell) for a one-character cell; <<>> stands for NaN
ToNumber(cell) ==
  CASE cell = "1" -> <<1>>
    [] cell = "2" -> <<2>>
    [] cell = "3" -> <<3>>
    [] OTHER -> <<>>

\* Math.floor((coord + C.CELL_EDGE / 2) / C.CELL_EDGE), coord in hundredths
CellIndex(coord) == (2 * coord + 100 * CELL_EDGE) \div (2 * 100 * CELL_EDGE)

\* (map[ci] || {})[cj] || ' '
cellAt(position) ==
  LET raw == Track(CellIndex(position[2]), CellIndex(position[1]))
  IN  IF raw = "" THEN " " ELSE raw

\* cell === ' ' ? NaN : Number(map[ci][cj])
cellNumber(cell) == IF cell = " " THEN <<>> ELSE ToNumber(cell)

\* if (isNaN(checkpoint)) checkpoint = oldCheckpoint
orOldCheckpoint(n, oldCheckpoint) == IF n = <<>> THEN oldCheckpoint ELSE n[1]

\* the checkpoint read at the body's cell
checkpointAt(position, oldCheckpoint) ==
  orOldCheckpoint(cellNumber(cellAt(position)), oldCheckpoint)

\* ----------------------------------------------------------------- evolve
\* create / remove bodies: every slot of this.ships gets a body, a new one
\* at [102, 52] when the pool has none, the pooled one reset otherwise
createBodies(thisShips, bodies) ==
  [i \in (DOMAIN bodies) \cup (DOMAIN thisShips) |->
     IF i \in DOMAIN thisShips
     THEN IF i \in DOMAIN bodies THEN resetBody(bodies[i])
          ELSE NewBody(<<102 * 100, 52 * 100>>)
     ELSE bodies[i]]

\* new Ship({...}) of the SPAWN_PLAYER case
spawnShip(body, sev) ==
  [position |-> body.position, velocity |-> body.velocity, angle |-> body.angle,
   username |-> sev.username, color |-> sev.color, input |-> NewPlayerInput,
   checkpoint |-> 1, lap |-> 0, currentLaptime |-> 0, laptimes |-> <<0>>]

\* f with index k set to v (an assignment into a sparse array)
Put(f, k, v) == [i \in (DOMAIN f) \cup {k} |-> IF i = k THEN v ELSE f[i]]

\* delete f[k]
Remove(f, k) == [i \in (DOMAIN f) \ {k} |-> f[i]]

\* mutant: SPAWN_PLAYER takes the pooled body of the slot when there is one
consumeServerEvent_reusesBody(sev, w) ==
  IF sev.type = SPAWN_PLAYER
  THEN LET body == IF sev.val \in DOMAIN w.bodies THEN w.bodies[sev.val]
                   ELSE NewBody(positionForShipId(sev.val))
       IN  [ships |-> Put(w.ships, sev.val, spawnShip(body, sev)),
            bodies |-> Put(w.bodies, sev.val, body)]
  ELSE IF sev.type = DESTROY_PLAYER
  THEN [ships |-> Remove(w.ships, sev.val), bodies |-> w.bodies]
  ELSE w

\* one server event applied to the working ships and the body pool
consumeServerEvent(sev, w) ==
  IF sev.type = SPAWN_PLAYER
  THEN LET body == NewBody(positionForShipId(sev.val))
       IN  [ships |-> Put(w.ships, sev.val, spawnShip(body, sev)),
            bodies |-> Put(w.bodies, sev.val, body)]
  ELSE IF sev.type = DESTROY_PLAYER
  THEN [ships |-> Remove(w.ships, sev.val), bodies |-> w.bodies]
  ELSE w

RECURSIVE consumeServerEvents_reversed(_, _)
\* mutant: the queue is consumed from its end
consumeServerEvents_reversed(sevs, w) ==
  IF sevs = <<>> THEN w
  ELSE consumeServerEvent(Head(sevs), consumeServerEvents_reversed(Tail(sevs), w))

RECURSIVE consumeServerEvents(_, _)
\* this.serverEvents.forEach(...), in queue order
consumeServerEvents(sevs, w) ==
  IF sevs = <<>> THEN w
  ELSE consumeServerEvents(Tail(sevs), consumeServerEvent(Head(sevs), w))

\* mutant: the body keeps the position it had
syncBody_keepsPosition(body, ship) ==
  [body EXCEPT !.velocity = ship.velocity, !.angle = ship.angle,
               !.force = <<0, 0>>]

\* init / reset props for determinism: the ship's kinematics into its body
syncBody(body, ship) ==
  [body EXCEPT !.position = ship.position, !.velocity = ship.velocity,
               !.angle = ship.angle, !.force = <<0, 0>>]

\* mutant: the gate tests the vessel only, not the phase
canSteer_ignoresPhase(ship, state) == ~hasFinishedRace(ship)

\* the race-eligibility gate of input application
canSteer(ship, state) ==
  ~hasFinishedRace(ship) /\ state \in {IN_PROGRESS, FINISH_COUNTDOWN}

\* mutant: the turn flags of the stored input are not cleared
resolveInput_holdsTurn(ship, playerEvents, state) ==
  IF canSteer(ship, state) THEN applyPlayerEvents(ship.input, playerEvents)
  ELSE NewPlayerInput

\* the input resolved for one ship this tick
resolveInput(ship, playerEvents, state) ==
  LET input == [ship.input EXCEPT !["turnL"] = FALSE, !["turnR"] = FALSE]
  IN  IF canSteer(ship, state) THEN applyPlayerEvents(input, playerEvents)
      ELSE NewPlayerInput

\* if (input.turnL) body.angle += -Math.PI / 2; same for turnR
turnBody(body, input) ==
  [body EXCEPT !.angle = body.angle + (IF input["turnL"] THEN -1 ELSE 0)
                                    + (IF input["turnR"] THEN 1 ELSE 0)]

\* main thruster force
thrustBody(body, input) ==
  applyForceLocal(body,
    <<0, -(FORCE * (IF input["gas"] THEN (IF input["boost"] THEN 2 ELSE 1) ELSE 0))>>)

\* leaning right by engaging left thruster
leanRightBody(body, input) ==
  IF input["leanR"] THEN applyForceLocal(body, <<FORCE, 0>>) ELSE body

\* leaning left by engaging right thruster
leanLeftBody(body, input) ==
  IF input["leanL"] THEN applyForceLocal(body, <<-FORCE, 0>>) ELSE body

\* heading change and thruster forces of one eligible ship
steerBody(body, input) ==
  leanLeftBody(leanRightBody(thrustBody(turnBody(body, input), input), input), input)

\* air drag
dragBody(body) == [body EXCEPT !.velocity = AirDrag(body.velocity)]

\* mutant: air drag is applied inside the race-eligibility gate
driveBody_dragsRacersOnly(body, ship, playerEvents, state) ==
  IF canSteer(ship, state)
  THEN dragBody(steerBody(syncBody(body, ship), resolveInput(ship, playerEvents, state)))
  ELSE syncBody(body, ship)

\* apply player inputs to one occupied slot: the driven body
driveBody(body, ship, playerEvents, state) ==
  dragBody(IF canSteer(ship, state)
           THEN steerBody(syncBody(body, ship), resolveInput(ship, playerEvents, state))
           ELSE syncBody(body, ship))

\* this.events[i] || []
eventsOf(events, i) == IF i \in DOMAIN events THEN events[i] ELSE <<>>

\* apply player inputs: every ship of the working list drives its body and
\* stores the resolved input
applyPlayerInputs(w, events, state) ==
  [ships |-> [i \in DOMAIN w.ships |->
                [w.ships[i] EXCEPT
                   !.input = resolveInput(w.ships[i], eventsOf(events, i), state)]],
   bodies |-> [i \in DOMAIN w.bodies |->
                IF i \in DOMAIN w.ships
                THEN driveBody(w.bodies[i], w.ships[i], eventsOf(events, i), state)
                ELSE w.bodies[i]]]

\* checkpoint > oldCheckpoint + 1: crossed the finish line
crossedForward(ship, checkpoint) == checkpoint > ship.checkpoint + 1

\* mutant: a step back of one checkpoint counts as a backward crossing
crossedBackward_offByOne(ship, checkpoint) == checkpoint <= ship.checkpoint - 1

\* checkpoint < oldCheckpoint - 1: going backwards and crossed the finish line
crossedBackward(ship, checkpoint) == checkpoint < ship.checkpoint - 1

\* ship.lap after ship.lap++ / ship.lap--
lapAfter(ship, checkpoint) ==
  IF crossedForward(ship, checkpoint) THEN ship.lap + 1
  ELSE IF crossedBackward(ship, checkpoint) THEN ship.lap - 1
  ELSE ship.lap

\* mutant: every forward crossing starts a laptime
startsLaptime_everyCrossing(ship, checkpoint) == crossedForward(ship, checkpoint)

\* ship.lap > ship.currentLaptime after a forward crossing
startsLaptime(ship, checkpoint) ==
  crossedForward(ship, checkpoint) /\ lapAfter(ship, checkpoint) > ship.currentLaptime

\* the working ship as the callback leaves it (lap, currentLaptime mutated)
lapMutate(ship, checkpoint) ==
  [ship EXCEPT !.lap = lapAfter(ship, checkpoint),
               !.currentLaptime = IF startsLaptime(ship, checkpoint)
                                  THEN lapAfter(ship, checkpoint) ELSE @]

\* increase current lap's time
timeLap(ship, dt) ==
  IF ~hasFinishedRace(ship)
  THEN [ship.laptimes EXCEPT ![ship.currentLaptime + 1] = @ + dt]
  ELSE ship.laptimes

\* the local laptimes at the end of the callback
lapTimes(ship, checkpoint, dt) ==
  IF startsLaptime(ship, checkpoint) THEN Append(timeLap(ship, dt), 0)
  ELSE timeLap(ship, dt)

\* mutant: the finish is detected in every phase
startsCountdown_anyPhase(ship, mutated, checkpoint, state) ==
  /\ crossedForward(ship, checkpoint)
  /\ ~hasFinishedRace(ship)
  /\ hasFinishedRace(mutated)

\* !hadFinishedRace && ship.hasFinishedRace() && state === IN_PROGRESS
startsCountdown(ship, mutated, checkpoint, state) ==
  /\ crossedForward(ship, checkpoint)
  /\ ~hasFinishedRace(ship)
  /\ hasFinishedRace(mutated)
  /\ state = IN_PROGRESS

\* return new Ship({...})
nextShip(mutated, body, checkpoint, laptimes) ==
  [position |-> body.position, velocity |-> body.velocity, angle |-> body.angle,
   username |-> mutated.username, color |-> mutated.color, input |-> mutated.input,
   checkpoint |-> checkpoint, lap |-> mutated.lap,
   currentLaptime |-> mutated.currentLaptime, laptimes |-> laptimes]

lapStepAt(ship, body, state, dt, checkpoint) ==
  [ship |-> lapMutate(ship, checkpoint),
   next |-> nextShip(lapMutate(ship, checkpoint), body, checkpoint,
                     lapTimes(ship, checkpoint, dt)),
   finish |-> startsCountdown(ship, lapMutate(ship, checkpoint), checkpoint, state)]

\* the callback of bodies.map for one occupied slot, under the phase the
\* earlier slots left: the mutated working ship, the Ship of the next turn,
\* and whether this ship starts the finish countdown
lapStep(ship, body, state, dt) ==
  lapStepAt(ship, body, state, dt, checkpointAt(body.position, ship.checkpoint))

Min(S) == CHOOSE x \in S : \A y \in S : x <= y

\* mutant: the finish sets the phase but leaves the counter alone
mapBody_keepsCounter(acc, i, r) ==
  [ships |-> [acc.ships EXCEPT ![i] = r.ship],
   nextShips |-> Put(acc.nextShips, i, r.next),
   state |-> IF r.finish THEN FINISH_COUNTDOWN ELSE acc.state,
   counter |-> acc.counter,
   log |-> IF r.finish
           THEN Append(acc.log, [slot |-> i, username |-> r.ship.username])
           ELSE acc.log]

\* mutant: the Ship of the next turn is pushed behind those already made
mapBody_compacts(acc, i, r) ==
  [ships |-> [acc.ships EXCEPT ![i] = r.ship],
   nextShips |-> Put(acc.nextShips, Cardinality(DOMAIN acc.nextShips), r.next),
   state |-> IF r.finish THEN FINISH_COUNTDOWN ELSE acc.state,
   counter |-> IF r.finish THEN FINISH_COUNTDOWN_S ELSE acc.counter,
   log |-> IF r.finish
           THEN Append(acc.log, [slot |-> i, username |-> r.ship.username])
           ELSE acc.log]

\* the accumulated result of bodies.map after slot i returned r
mapBody(acc, i, r) ==
  [ships |-> [acc.ships EXCEPT ![i] = r.ship],
   nextShips |-> Put(acc.nextShips, i, r.next),
   state |-> IF r.finish THEN FINISH_COUNTDOWN ELSE acc.state,
   counter |-> IF r.finish THEN FINISH_COUNTDOWN_S ELSE acc.counter,
   log |-> IF r.finish
           THEN Append(acc.log, [slot |-> i, username |-> r.ship.username])
           ELSE acc.log]

RECURSIVE mapBodies(_, _, _, _)
\* the callback run for slot i, then the rest of todo
mapBodiesAt(i, todo, bodies, dt, acc) ==
  mapBodies(todo \ {i}, bodies, dt,
            mapBody(acc, i, lapStep(acc.ships[i], bodies[i], acc.state, dt)))

\* bodies.map(...) over the occupied slots todo, in index order; acc carries
\* the working ships, nextShips, the phase, the counter and the log
mapBodies(todo, bodies, dt, acc) ==
  IF todo = {} THEN acc ELSE mapBodiesAt(Min(todo), todo, bodies, dt, acc)

\* mutant: the game reset forgets the laptimes
resetShip_keepsLaptimes(ship, i) ==
  [ship EXCEPT !.position = positionForShipId(i), !.velocity = <<0, 0>>,
               !.angle = StartAngle, !.checkpoint = 1, !.lap = 0,
               !.currentLaptime = 0]

\* game reset of one ship of nextShips
resetShip(ship, i) ==
  [ship EXCEPT !.position = positionForShipId(i), !.velocity = <<0, 0>>,
               !.angle = StartAngle, !.checkpoint = 1, !.lap = 0,
               !.currentLaptime = 0, !.laptimes = <<0>>]

\* mutant: the end of the finish countdown restarts the race at once
switchState_skipsResults(acc, counter) ==
  IF acc.state = FINISH_COUNTDOWN
     /\ (counter = 0 \/ \A i \in DOMAIN acc.ships : hasFinishedRace(acc.ships[i]))
  THEN [ships |-> acc.nextShips, state |-> IN_PROGRESS,
        counter |-> RESULTS_SCREEN_S]
  ELSE IF acc.state = RESULTS_SCREEN /\ counter = 0
  THEN [ships |-> acc.nextShips, state |-> IN_PROGRESS, counter |-> counter]
  ELSE [ships |-> acc.nextShips, state |-> acc.state, counter |-> counter]

\* the switch of the game state machine, counter already decremented
switchState(acc, counter) ==
  IF acc.state = FINISH_COUNTDOWN
     /\ (counter = 0 \/ \A i \in DOMAIN acc.ships : hasFinishedRace(acc.ships[i]))
  THEN [ships |-> acc.nextShips, state |-> RESULTS_SCREEN,
        counter |-> RESULTS_SCREEN_S]
  ELSE IF acc.state = RESULTS_SCREEN /\ counter = 0
  THEN [ships |-> [i \in DOMAIN acc.nextShips |-> resetShip(acc.nextShips[i], i)],
        state |-> IN_PROGRESS, counter |-> counter]
  ELSE [ships |-> acc.nextShips, state |-> acc.state, counter |-> counter]

\* mutant: the counter is not decremented
gameStateMachine_noDecrement(acc) == switchState(acc, acc.counter)

\* game state machine, run on the result of bodies.map:
\* counter = Math.ceil(counter - 1) on an integer counter, then the switch
gameStateMachine(acc) == switchState(acc, acc.counter - 1)

\* new Turn(nextShips, [], [], state, counter)
nextTurn(fsm) ==
  [ships |-> fsm.ships, events |-> <<>>, serverEvents |-> <<>>,
   state |-> fsm.state, counter |-> fsm.counter]

\* the stages of evolve, each handed the results of the earlier ones
\* working: the local ships array as the call leaves it
evolveMapped(stepped, acc) ==
  [turn |-> nextTurn(gameStateMachine(acc)), bodies |-> stepped, log |-> acc.log,
   working |-> acc.ships]

\* mutant: the next Turn is built on the queues of the receiver
evolveStepped_keepsQueues(this, dt, driven, stepped) ==
  [evolveMapped(stepped,
     mapBodies((DOMAIN stepped) \cap (DOMAIN driven.ships), stepped, dt,
               [ships |-> driven.ships, nextShips |-> <<>>, state |-> this.state,
                counter |-> this.counter, log |-> <<>>]))
   EXCEPT !.turn.events = this.events, !.turn.serverEvents = this.serverEvents]

evolveStepped(this, dt, driven, stepped) ==
  evolveMapped(stepped,
    mapBodies((DOMAIN stepped) \cap (DOMAIN driven.ships), stepped, dt,
              [ships |-> driven.ships, nextShips |-> <<>>, state |-> this.state,
               counter |-> this.counter, log |-> <<>>]))

evolveDriven(this, dt, driven) ==
  evolveStepped(this, dt, driven, worldStep(driven.bodies, dt))

\* mutant: a copy of the array only, its Ship objects shared with the argument
clone_shallow(thisShips) ==
  [ships |-> thisShips, same |-> FALSE, shared |-> DOMAIN thisShips]

\* let ships = clone(this.ships): a deep copy. ships is the copy's value,
\* same tells whether the copy is the argument's own array, shared the slots
\* whose Ship object is the argument's own
clone(thisShips) == [ships |-> thisShips, same |-> FALSE, shared |-> {}]

\* the slots the server events assign to or delete from the local array
Reassigned(sevs) ==
  {sevs[k].val : k \in {n \in DOMAIN sevs :
                          sevs[n].type \in {SPAWN_PLAYER, DESTROY_PLAYER}}}

\* this.ships after a call whose local array was copy and ended as working:
\* the writes of evolve go to the local array (ships[sev.val] = ..., delete
\* ships[sev.val]) and to the Ship objects still in it (ship.input = input,
\* ship.lap++, ship.lap--, ship.currentLaptime = ship.lap)
shipsAfter(this, copy, working) ==
  IF copy.same THEN working
  ELSE [i \in DOMAIN this.ships |->
          IF i \in copy.shared /\ i \notin Reassigned(this.serverEvents)
             /\ i \in DOMAIN working
          THEN working[i] ELSE this.ships[i]]

\* the working ships and the pool after the server events are consumed
admit(this, bodies) ==
  consumeServerEvents(this.serverEvents,
    [ships |-> clone(this.ships).ships,
     bodies |-> createBodies(this.ships, bodies)])

\* Turn.evolve(map, world, bodies, dt): the next Turn, the body pool as the
\* call leaves it, and the completion records logged
evolve(this, bodies, dt) ==
  evolveDriven(this, dt, applyPlayerInputs(admit(this, bodies), this.events, this.state))

\* the receiver of evolve after the call: events, serverEvents, state and
\* counter are only read (state and counter through the locals of
\* let {state, counter} = this), ships is written through the local array
thisAfter(this, bodies, dt) ==
  [this EXCEPT !.ships = shipsAfter(this, clone(this.ships),
                                    evolve(this, bodies, dt).working)]

\* ------------------------------------------------------- event accumulators
RECURSIVE scanFreeSlot_ignoresShips(_, _, _)
\* mutant: the scan tests the reserved slots only, not this.ships
scanFreeSlot_ignoresShips(thisShips, reservedSlots, freeSlot) ==
  IF freeSlot \in reservedSlots
  THEN scanFreeSlot_ignoresShips(thisShips, reservedSlots, freeSlot + 1)
  ELSE freeSlot

RECURSIVE scanFreeSlot(_, _, _)
\* while (this.ships[freeSlot] != null || reservedSlots[freeSlot]) ++freeSlot
scanFreeSlot(thisShips, reservedSlots, freeSlot) ==
  IF freeSlot \in DOMAIN thisShips \/ freeSlot \in reservedSlots
  THEN scanFreeSlot(thisShips, reservedSlots, freeSlot + 1)
  ELSE freeSlot

\* mutant: the queued SPAWN_PLAYER events reserve nothing
getFreeShipSlot_ignoresReserved(thisShips, thisServerEvents) ==
  scanFreeSlot(thisShips, {}, 0)

\* Turn.getFreeShipSlot()
getFreeShipSlot(thisShips, thisServerEvents) ==
  LET reservedSlots == {thisServerEvents[n].val :
                          n \in {m \in DOMAIN thisServerEvents :
                                   thisServerEvents[m].type = SPAWN_PLAYER}}
  IN  scanFreeSlot(thisShips, reservedSlots, 0)

\* mutant: the scan runs from the front and stops at the oldest event of the type
findRelated_oldest(existingEvents, type, i) ==
  IF \E n \in 1 .. i : existingEvents[n].type = type
  THEN Min({n \in 1 .. i : existingEvents[n].type = type})
  ELSE 0

RECURSIVE findRelated(_, _, _)
\* the backward scan of addEvents: the index of the most recently queued
\* event of the type, 0 when there is none
findRelated(existingEvents, type, i) ==
  IF i = 0 THEN 0
  ELSE IF existingEvents[i].type = type THEN i
  ELSE findRelated(existingEvents, type, i - 1)

\* mutant: every incoming event is pushed, whatever the queue holds
addEvent_pushesDuplicates(q, ev) ==
  [existingEvents |-> Append(q.existingEvents, ev), changed |-> TRUE]

\* the body of evs.forEach for one incoming event
addEvent(q, ev) ==
  LET i == findRelated(q.existingEvents, ev.type, Len(q.existingEvents))
      push == i = 0 \/ q.existingEvents[i].val # ev.val
  IN  [existingEvents |-> IF push THEN Append(q.existingEvents, ev)
                          ELSE q.existingEvents,
       changed |-> q.changed \/ push]

RECURSIVE addEventsLoop(_, _)
addEventsLoop(q, evs) ==
  IF evs = <<>> THEN q ELSE addEventsLoop(addEvent(q, Head(evs)), Tail(evs))

\* Turn.addEvents(shipId, evs): the new this.events and the value returned
addEvents(thisEvents, shipId, evs) ==
  LET q == addEventsLoop([existingEvents |-> eventsOf(thisEvents, shipId),
                          changed |-> FALSE], evs)
  IN  [events |-> Put(thisEvents, shipId, q.existingEvents), changed |-> q.changed]

\* Turn.addServerEvent(evs), evs an array
addServerEvent(thisServerEvents, evs) == thisServerEvents \o evs

\* --------------------------------------------------------------- the state
VARIABLES
  ships,         \* this.ships
  events,        \* this.events
  serverEvents,  \* this.serverEvents
  state,         \* this.state
  counter,       \* this.counter
  bodies,        \* the caller's body pool, shared across ticks
  ticks,         \* evolve calls made so far
  calls,         \* event-recording calls made so far
  away,          \* evolve calls since a Turn in IN_PROGRESS was last returned
  last           \* the last operation: its arguments, receiver and result

vars == <<ships, events, serverEvents, state, counter, bodies, ticks, calls, away, last>>

\* the Turn the variables hold
ThisTurn ==
  [ships |-> ships, events |-> events, serverEvents |-> serverEvents,
   state |-> state, counter |-> counter]

\* ------------------------------------------------------------ input domains
Usernames == {"ann", "bob"}
Colors == {"red"}
DtSet == {500, 1000}
InputEvents == [type : InputTypes, val : BOOLEAN]
SpawnEvents == [type : {SPAWN_PLAYER}, val : Slots, username : Usernames, color : Colors]
DestroyEvents == [type : {DESTROY_PLAYER}, val : Slots]

\* new Turn([], [], []) and an empty body pool
NewTurn ==
  [ships |-> <<>>, state |-> IN_PROGRESS, counter |-> 0, bodies |-> <<>>,
   away |-> 0]

\* A racer as evolve leaves it, with no input flag held
Racer(username, position, velocity, checkpoint, lap, currentLaptime, laptimes) ==
  [position |-> position, velocity |-> velocity, angle |-> StartAngle,
   username |-> username, color |-> "red", input |-> NewPlayerInput,
   checkpoint |-> checkpoint, lap |-> lap, currentLaptime |-> currentLaptime,
   laptimes |-> laptimes]

\* the pool body of a ship after the tick that produced the ship
BodyOf(ship) ==
  [position |-> ship.position, velocity |-> ship.velocity, angle |-> ship.angle,
   angularVelocity |-> 0, force |-> <<0, 0>>]

\* A race under way.  Reached from NewTurn by: SPAWN_PLAYER 0 (ann) and 1
\* (bob), evolve; gas on for slot 0, evolve; gas off for slot 0, evolve;
\* evolve; evolve (every dt 1000).  Ann coasts on her last lap, one tick of
\* 1000 ms short of the finish line; bob has not left the start.
Ann ==
  [lastLap |-> Racer("ann", <<9012, 5200>>, <<-194, 0>>, 1, 1, 1, <<2000, 3000>>),
   finished |-> Racer("ann", <<8820, 5200>>, <<-192, 0>>, 3, 2, 2, <<2000, 4000, 0>>),
   results |-> Racer("ann", <<8442, 5200>>, <<-188, 0>>, 2, 2, 2, <<2000, 4000, 0>>)]

Bob(time) == Racer("bob", <<10100, 4800>>, <<0, 0>>, 1, 0, 0, <<time>>)

\* since: the evolve calls made since the race was last IN_PROGRESS
Race(ann, bob, phase, countdown, since) ==
  [ships |-> (0 :> ann) @@ (1 :> bob), state |-> phase, counter |-> countdown,
   bodies |-> (0 :> BodyOf(ann)) @@ (1 :> BodyOf(bob)), away |-> since]

LastLap == Race(Ann.lastLap, Bob(5000), IN_PROGRESS, -5, 0)

\* one more evolve (dt 1000) after LastLap: ann has finished
Countdown == Race(Ann.finished, Bob(6000), FINISH_COUNTDOWN, 1, 1)

\* two more evolve calls (dt 1000) after Countdown
Results == Race(Ann.results, Bob(8000), RESULTS_SCREEN, 1, 3)

\* A vessel coming back over the line.  Reached from NewTurn by: SPAWN_PLAYER
\* 0 (ann) and 1 (bob), evolve; gas on for slot 0, evolve; turnL on for slot
\* 0, evolve; evolve (every dt 1000).  Ann has crossed the line once, turned
\* with the gas held and drifts across the rows of the grid; one tick of
\* 1000 ms more and she enters a checkpoint 1 cell from checkpoint 3.
Reversing ==
  Race([Racer("ann", <<9206, 5798>>, <<-196, 398>>, 3, 1, 1, <<2000, 2000>>)
          EXCEPT !.angle = -2, !.input = [NewPlayerInput EXCEPT !["gas"] = TRUE]],
       Bob(4000), IN_PROGRESS, -4, 0)

\* Two vessels one tick short of the finish line.  Reached from NewTurn by:
\* SPAWN_PLAYER 0 (ann) and 1 (bob), evolve; gas on for slot 1, evolve; gas
\* off for slot 1, evolve; gas on for slot 0, evolve; gas off for slot 0,
\* evolve; evolve; evolve (every dt 1000).  A tick of 1000 ms takes both
\* over the line, a tick of 500 ms bob alone.
PhotoFinish ==
  Race(Racer("ann", <<9012, 5200>>, <<-194, 0>>, 1, 1, 1, <<4000, 3000>>),
       Racer("bob", <<8930, 4800>>, <<-190, 0>>, 1, 1, 1, <<4000, 3000>>),
       IN_PROGRESS, -7, 0)

StartTurns == {NewTurn, LastLap, Countdown, Results, Reversing, PhotoFinish}

Init ==
  /\ \E t \in StartTurns :
       /\ ships = t.ships
       /\ state = t.state
       /\ counter = t.counter
       /\ bodies = t.bodies
       /\ away = t.away
  /\ events = <<>>
  /\ serverEvents = <<>>
  /\ ticks = 0
  /\ calls = 0
  /\ last = [op |-> "start"]

\* ----------------------------------------------------------------- actions
\* changed = turn.addEvents(shipId, evs)
DoAddEvents(shipId, evs) ==
  \E r \in {addEvents(events, shipId, evs)} :
    /\ events' = r.events
    /\ last' = [op |-> "addEvents", shipId |-> shipId, evs |-> evs,
                before |-> events, changed |-> r.changed]
    /\ UNCHANGED <<ships, serverEvents, state, counter, bodies, ticks, away>>

\* turn.addEvents(shipId, [ev])
AddEvents(budget) ==
  /\ calls < budget
  /\ calls' = calls + 1
  /\ \E shipId \in Slots, ev \in InputEvents : DoAddEvents(shipId, <<ev>>)

\* turn.addEvents(shipId, [ev1, ev2]), two events of one type in one call
AddEventsPair(budget) ==
  /\ calls < budget
  /\ calls' = calls + 1
  /\ \E shipId \in Slots, type \in InputTypes, v1 \in BOOLEAN, v2 \in BOOLEAN :
       DoAddEvents(shipId, <<[type |-> type, val |-> v1], [type |-> type, val |-> v2]>>)

\* turn.addServerEvent(sev)
DoAddServerEvent(sev) ==
  /\ serverEvents' = addServerEvent(serverEvents, <<sev>>)
  /\ last' = [op |-> "addServerEvent", sev |-> sev]
  /\ UNCHANGED <<ships, events, state, counter, bodies, ticks, away>>

\* a SPAWN_PLAYER with a slot of the caller's choosing
AddSpawn(budget) ==
  /\ calls < budget
  /\ calls' = calls + 1
  /\ \E sev \in SpawnEvents : DoAddServerEvent(sev)

\* a DESTROY_PLAYER
AddDestroy(budget) ==
  /\ calls < budget
  /\ calls' = calls + 1
  /\ \E sev \in DestroyEvents : DoAddServerEvent(sev)

\* slot = turn.getFreeShipSlot(); turn.addServerEvent({SPAWN_PLAYER, slot})
ReserveSpawn(budget) ==
  /\ calls < budget
  /\ calls' = calls + 1
  /\ \E u \in Usernames, c \in Colors, slot \in {getFreeShipSlot(ships, serverEvents)} :
       /\ slot \in Slots
       /\ serverEvents' = addServerEvent(serverEvents,
            <<[type |-> SPAWN_PLAYER, val |-> slot, username |-> u, color |-> c]>>)
       /\ last' = [op |-> "getFreeShipSlot", slot |-> slot,
                   ships |-> ships, serverEvents |-> serverEvents]
       /\ UNCHANGED <<ships, events, state, counter, bodies, ticks, away>>

\* nextTurn = turn.evolve(map, world, bodies, dt)
DoEvolve ==
  /\ ticks' = ticks + 1
  /\ \E dt \in DtSet :
      \E r \in {evolve(ThisTurn, bodies, dt)} :
        /\ away' = IF r.turn.state = IN_PROGRESS THEN 0 ELSE away + 1
        /\ ships' = r.turn.ships
        /\ events' = r.turn.events
        /\ serverEvents' = r.turn.serverEvents
        /\ state' = r.turn.state
        /\ counter' = r.turn.counter
        /\ bodies' = r.bodies
        /\ last' = [op |-> "evolve", this |-> ThisTurn, pool |-> bodies, dt |-> dt,
                    log |-> r.log]
        /\ UNCHANGED calls

\* an evolve call within the budget of ticks
Evolve == ticks < MaxTicks /\ DoEvolve

\* an evolve call within the budget of ticks, or one of the calls that carry
\* a match that has left IN_PROGRESS on to the next race
EvolveCycle == (ticks < MaxTicks \/ state # IN_PROGRESS) /\ DoEvolve

\* ---------------------------------------------------------- specifications
\* The whole Turn: any recording call and evolve, from every start Turn
Next ==
  \/ AddEvents(MaxCalls)
  \/ AddSpawn(MaxCalls)
  \/ AddDestroy(MaxCalls)
  \/ ReserveSpawn(MaxCalls)
  \/ Evolve

Spec == Init /\ [][Next]_vars

\* The input queue alone: addEvents calls on a new Turn
InitEvents ==
  /\ ships = NewTurn.ships
  /\ state = NewTurn.state
  /\ counter = NewTurn.counter
  /\ bodies = NewTurn.bodies
  /\ away = NewTurn.away
  /\ events = <<>>
  /\ serverEvents = <<>>
  /\ ticks = 0
  /\ calls = 0
  /\ last = [op |-> "start"]

NextEvents == AddEvents(MaxCalls + 1) \/ AddEventsPair(MaxCalls + 1)

SpecEvents == InitEvents /\ [][NextEvents]_vars

\* Callers that spawn only into slots obtained from getFreeShipSlot
NextReserved ==
  \/ ReserveSpawn(MaxAdminCalls)
  \/ AddDestroy(MaxAdminCalls)
  \/ Evolve

SpecReserved == Init /\ [][NextReserved]_vars

\* Whole matches: from Turns in IN_PROGRESS, any recording call, and evolve
\* called tick after tick (the caller evolves once per fixed tick, so evolve
\* is never postponed forever)
InitCycle ==
  /\ \E t \in {NewTurn, LastLap, PhotoFinish} :
       /\ ships = t.ships
       /\ state = t.state
       /\ counter = t.counter
       /\ bodies = t.bodies
       /\ away = t.away
  /\ events = <<>>
  /\ serverEvents = <<>>
  /\ ticks = 0
  /\ calls = 0
  /\ last = [op |-> "start"]

NextCycle ==
  \/ AddEvents(MaxCalls)
  \/ AddSpawn(MaxCalls)
  \/ AddDestroy(MaxCalls)
  \/ EvolveCycle

\* the step a due evolve call makes, told by the tick count alone: among the
\* steps of NextCycle these are the EvolveCycle steps, and it is enabled
\* exactly when EvolveCycle is (evolve accepts every Turn)
Tick == (ticks < MaxTicks \/ state # IN_PROGRESS) /\ ticks' = ticks + 1

SpecCycle == InitCycle /\ [][NextCycle]_vars /\ WF_ticks(Tick)

\* ------------------------------------------------------------------ claims
\* the slots of the SPAWN_PLAYER events of a queue
SpawnSlots(sevs) ==
  {sevs[n].val : n \in {m \in DOMAIN sevs : sevs[m].type = SPAWN_PLAYER}}

\* C1: in every Turn, getFreeShipSlot returns the lowest non-negative integer
\* that is neither the index of a live vessel nor the slot of a queued
\* SPAWN_PLAYER event: it is in neither set and every smaller index is in one.
C1_FreeSlotIsLowestFree ==
  \A k \in {getFreeShipSlot(ships, serverEvents)} :
    /\ k >= 0
    /\ k \notin DOMAIN ships
    /\ k \notin SpawnSlots(serverEvents)
    /\ \A j \in 0 .. (k - 1) : j \in (DOMAIN ships) \cup SpawnSlots(serverEvents)

\* a reservation that skipped slot 0 because a queued SPAWN holds it, and
\* found slot 1 behind it, with a live vessel elsewhere in a sparse list
C1_Witness ==
  /\ last.op = "getFreeShipSlot"
  /\ last.slot = 1
  /\ 0 \notin DOMAIN last.ships
  /\ 0 \in SpawnSlots(last.serverEvents)
  /\ ticks > 0

\* the SPAWN_PLAYER events of a queue, as a set of queue positions
SpawnAt(sevs) == {m \in DOMAIN sevs : sevs[m].type = SPAWN_PLAYER}

RECURSIVE SpawnOverwrites(_, _)
\* consuming sevs from a working list with the occupied slots live, some
\* SPAWN_PLAYER lands on a slot that holds a vessel at that moment
SpawnOverwrites(sevs, live) ==
  IF sevs = <<>> THEN FALSE
  ELSE IF Head(sevs).type = SPAWN_PLAYER
       THEN Head(sevs).val \in live \/ SpawnOverwrites(Tail(sevs), live \cup {Head(sevs).val})
       ELSE SpawnOverwrites(Tail(sevs), live \ {Head(sevs).val})

\* C2: when every SPAWN is recorded with the slot getFreeShipSlot just
\* returned, then in every Turn no two queued SPAWNs share a slot, no queued
\* SPAWN targets a live vessel's slot, and consuming the queue never puts a
\* spawned vessel over a live one.
C2_ReservedSpawnsNeverCollide ==
  /\ \A m, n \in SpawnAt(serverEvents) :
       serverEvents[m].val = serverEvents[n].val => m = n
  /\ SpawnSlots(serverEvents) \cap DOMAIN ships = {}
  /\ ~SpawnOverwrites(serverEvents, DOMAIN ships)

\* evolve has consumed two reserved SPAWNs at once, into a Turn whose slot
\* list an earlier tick's DESTROY had emptied
C2_Witness ==
  /\ last.op = "evolve"
  /\ ticks = 2
  /\ Cardinality(SpawnAt(last.this.serverEvents)) = 2
  /\ DOMAIN last.this.ships = {}
  /\ DOMAIN last.pool = {0, 1}
  /\ DOMAIN ships = {0, 1}

\* the edges of the match-phase state machine as the specification lists them
PhaseEdges ==
  {<<IN_PROGRESS, FINISH_COUNTDOWN>>, <<FINISH_COUNTDOWN, RESULTS_SCREEN>>,
   <<RESULTS_SCREEN, IN_PROGRESS>>}

\* C3 as claimed: across one evolve call the phase stays or moves along one
\* of the three edges; IN_PROGRESS -> RESULTS_SCREEN never happens in one call.
C3_OnlyListedEdges ==
  last.op = "evolve" =>
    state = last.this.state \/ <<last.this.state, state>> \in PhaseEdges

\* every vessel of the Turn has finished the race
AllFinished == \A i \in DOMAIN ships : hasFinishedRace(ships[i])

\* C3 amended: across one evolve call the phase stays, moves along one of the
\* three edges, or goes IN_PROGRESS -> RESULTS_SCREEN; the last happens only
\* when the countdown started in that call already ends in it: every vessel
\* of the returned Turn has finished, or FINISH_COUNTDOWN_S is 1.
C3_EdgesOrImmediateResults ==
  last.op = "evolve" =>
    \/ state = last.this.state
    \/ <<last.this.state, state>> \in PhaseEdges
    \/ /\ last.this.state = IN_PROGRESS
       /\ state = RESULTS_SCREEN
       /\ counter = RESULTS_SCREEN_S
       /\ AllFinished \/ FINISH_COUNTDOWN_S = 1

\* a lone racer finished: IN_PROGRESS went to RESULTS_SCREEN in one call
C3_Witness ==
  /\ last.op = "evolve"
  /\ last.this.state = IN_PROGRESS
  /\ state = RESULTS_SCREEN
  /\ DOMAIN ships # {}

\* the call evolved an IN_PROGRESS Turn and a vessel of the returned Turn
\* satisfies the finish predicate that did not before (it crossed the line)
NewlyFinished ==
  /\ last.op = "evolve"
  /\ last.this.state = IN_PROGRESS
  /\ \E i \in DOMAIN ships :
       /\ hasFinishedRace(ships[i])
       /\ i \in DOMAIN last.this.ships => ~hasFinishedRace(last.this.ships[i])

\* C4 as claimed: a vessel that newly finishes in an IN_PROGRESS Turn leaves
\* the returned Turn in FINISH_COUNTDOWN with countdown FINISH_COUNTDOWN_S.
C4_CountdownSetToDuration ==
  NewlyFinished => state = FINISH_COUNTDOWN /\ counter = FINISH_COUNTDOWN_S

\* C4 amended: the countdown is set to FINISH_COUNTDOWN_S and decremented in
\* the same call: the returned Turn is in FINISH_COUNTDOWN with countdown
\* FINISH_COUNTDOWN_S - 1, unless that is 0 or every vessel has finished, and
\* then it is in RESULTS_SCREEN with countdown RESULTS_SCREEN_S.
C4_CountdownStartedAndDecremented ==
  NewlyFinished =>
    IF FINISH_COUNTDOWN_S - 1 = 0 \/ AllFinished
    THEN state = RESULTS_SCREEN /\ counter = RESULTS_SCREEN_S
    ELSE state = FINISH_COUNTDOWN /\ counter = FINISH_COUNTDOWN_S - 1

\* a vessel finished while another is still racing
C4_Witness ==
  /\ NewlyFinished
  /\ state = FINISH_COUNTDOWN
  /\ \E i \in DOMAIN ships : ~hasFinishedRace(ships[i])

\* C5: evolve on a RESULTS_SCREEN Turn whose countdown reaches 0 returns an
\* IN_PROGRESS Turn in which every vessel stands at its slot's spawn position
\* with zero velocity and the start heading, checkpoint 1, lap 0,
\* currentLaptime 0 and laptimes [0].
C5_ResultsScreenResetsEveryVessel ==
  (last.op = "evolve" /\ last.this.state = RESULTS_SCREEN /\ last.this.counter - 1 = 0)
  => /\ state = IN_PROGRESS
     /\ \A i \in DOMAIN ships :
          /\ ships[i].position =
               <<(98 + 3 * i) * 100, (IF i % 2 = 0 THEN 52 ELSE 48) * 100>>
          /\ ships[i].velocity = <<0, 0>>
          /\ ships[i].angle = -1
          /\ ships[i].checkpoint = 1
          /\ ships[i].lap = 0
          /\ ships[i].currentLaptime = 0
          /\ ships[i].laptimes = <<0>>

\* the reset met a vessel that had raced two laps and one spawned in the
\* same tick
C5_Witness ==
  /\ last.op = "evolve"
  /\ last.this.state = RESULTS_SCREEN
  /\ last.this.counter = 1
  /\ SpawnSlots(last.this.serverEvents) = {1}
  /\ 0 \in DOMAIN last.this.ships
  /\ last.this.ships[0].lap = 2
  /\ DOMAIN ships = {0, 1}

\* the position in q of the most recently queued event of the type, 0 when
\* q holds none
LastOfType(q, type) ==
  IF \E n \in DOMAIN q : q[n].type = type
  THEN CHOOSE n \in DOMAIN q :
         /\ q[n].type = type
         /\ \A m \in DOMAIN q : q[m].type = type => m <= n
  ELSE 0

\* the last call was addEvents with the single event ev for a slot whose
\* queue q has an event of ev's type, the most recent one carrying ev's value
RepeatsLatest(q, ev) ==
  /\ LastOfType(q, ev.type) # 0
  /\ q[LastOfType(q, ev.type)].val = ev.val

\* C6: addEvents with a single event whose type and value equal those of the
\* most recently queued event of that type for the slot leaves the queue
\* unchanged and returns false, whatever the queue held.
C6_NoOpInputIsIdempotent ==
  (last.op = "addEvents" /\ Len(last.evs) = 1
     /\ RepeatsLatest(eventsOf(last.before, last.shipId), last.evs[1]))
  => /\ events = last.before
     /\ ~last.changed

\* a repeat of the latest value of a flag that an older event of the queue
\* had set the other way
C6_Witness ==
  /\ last.op = "addEvents"
  /\ Len(last.evs) = 1
  /\ RepeatsLatest(eventsOf(last.before, last.shipId), last.evs[1])
  /\ \E n \in DOMAIN last.before[last.shipId] :
       /\ last.before[last.shipId][n].type = last.evs[1].type
       /\ last.before[last.shipId][n].val # last.evs[1].val

RECURSIVE LogAfter(_, _)
\* the event log q after the events evs arrived in order: an event is
\* appended when q holds no event of its type or the most recent one of its
\* type carries another value
LogAfter(q, evs) ==
  IF evs = <<>> THEN q
  ELSE LogAfter(IF LastOfType(q, Head(evs).type) = 0
                   \/ q[LastOfType(q, Head(evs).type)].val # Head(evs).val
                THEN Append(q, Head(evs))
                ELSE q,
                Tail(evs))

\* C7: addEvents keeps the slot's queue an append-only log: the queue before
\* the call is a prefix of the queue after it, an event is appended exactly
\* when no event of its type is queued or the most recent of its type
\* carries another value, the call returns true exactly when it appended
\* something, and the queues of the other slots are left alone.
C7_QueueIsAppendOnlyLog ==
  last.op = "addEvents" =>
    \A q \in {eventsOf(last.before, last.shipId)} :
      /\ last.shipId \in DOMAIN events
      /\ Len(events[last.shipId]) >= Len(q)
      /\ SubSeq(events[last.shipId], 1, Len(q)) = q
      /\ events[last.shipId] = LogAfter(q, last.evs)
      /\ last.changed <=> Len(events[last.shipId]) > Len(q)
      /\ \A j \in (DOMAIN events) \ {last.shipId} :
           j \in DOMAIN last.before /\ events[j] = last.before[j]

\* a flag set on and then off in one call: both events queued, in order,
\* behind what the queue held
C7_Witness ==
  /\ last.op = "addEvents"
  /\ Len(last.evs) = 2
  /\ last.evs[1].val /\ ~last.evs[2].val
  /\ eventsOf(last.before, last.shipId) # <<>>
  /\ events[last.shipId] = last.before[last.shipId] \o last.evs
  /\ last.changed

\* the vessel of the working list is barred from control in this call
Barred(ship, phase) == ship.lap > MAX_LAPS \/ phase = RESULTS_SCREEN

\* C8: a vessel that has finished the race, or any vessel of a Turn in
\* RESULTS_SCREEN, gets no heading change and no input force from evolve
\* (its body leaves the tick with the vessel's heading and with the vessel's
\* velocity changed by air drag alone) and the input stored on it in the
\* returned Turn is all-false, whatever was queued or held.
C8_InputGatedByEligibility ==
  last.op = "evolve" =>
    \A w \in {admit(last.this, last.pool)} :
      \A i \in DOMAIN w.ships :
        Barred(w.ships[i], last.this.state) =>
          /\ ships[i].input = [t \in InputTypes |-> FALSE]
          /\ bodies[i].angle = w.ships[i].angle
          /\ bodies[i].velocity = AirDrag(w.ships[i].velocity)
          /\ bodies[i].position[1] =
               w.ships[i].position[1] + TruncDiv(bodies[i].velocity[1] * last.dt, 1000)
          /\ bodies[i].position[2] =
               w.ships[i].position[2] + TruncDiv(bodies[i].velocity[2] * last.dt, 1000)

\* a RESULTS_SCREEN Turn evolved with a vessel that has not finished, holds
\* the gas flag from the tick before and has events queued
C8_Witness ==
  /\ last.op = "evolve"
  /\ last.this.state = RESULTS_SCREEN
  /\ \E i \in DOMAIN last.this.ships :
       /\ ~hasFinishedRace(last.this.ships[i])
       /\ last.this.ships[i].input["gas"]
       /\ eventsOf(last.this.events, i) # <<>>
       /\ i \in DOMAIN ships

\* the slots whose last event in the admin queue is a SPAWN_PLAYER, each with
\* the position of that event
Respawned(sevs) ==
  {<<sevs[n].val, n>> :
     n \in {m \in DOMAIN sevs :
              /\ sevs[m].type = SPAWN_PLAYER
              /\ \A l \in DOMAIN sevs : sevs[l].val = sevs[m].val => l <= m}}

\* the vessel the SPAWN_PLAYER event sev constructs
FreshVessel(sev) ==
  [position |-> <<(98 + 3 * sev.val) * 100, (IF sev.val % 2 = 0 THEN 52 ELSE 48) * 100>>,
   velocity |-> <<0, 0>>, angle |-> -1,
   username |-> sev.username, color |-> sev.color,
   input |-> [t \in InputTypes |-> FALSE],
   checkpoint |-> 1, lap |-> 0, currentLaptime |-> 0, laptimes |-> <<0>>]

\* the Turn without the vessel of slot k
Without(this, k) == [this EXCEPT !.ships = Remove(this.ships, k)]

\* C9: a slot k whose last admin event is a SPAWN_PLAYER (after a DESTROY of
\* k in the same queue or in an earlier tick, or over a vessel) holds a
\* fresh vessel: constructed with checkpoint 1, lap 0, currentLaptime 0,
\* laptimes [0], all-false input, slot k's spawn pose and zero velocity, on a
\* body at that pose at rest; and the vessel and the body the call leaves in
\* slot k are those it leaves when the previous occupant and its pool body
\* never existed.
C9_RespawnIsFresh ==
  last.op = "evolve" =>
    \A kn \in Respawned(last.this.serverEvents) :
      /\ \A w \in {admit(last.this, last.pool)} :
           /\ w.ships[kn[1]] = FreshVessel(last.this.serverEvents[kn[2]])
           /\ w.bodies[kn[1]].position = w.ships[kn[1]].position
           /\ w.bodies[kn[1]].velocity = <<0, 0>>
           /\ w.bodies[kn[1]].angle = -1
           /\ w.bodies[kn[1]].force = <<0, 0>>
      /\ \A r \in {evolve(Without(last.this, kn[1]), Remove(last.pool, kn[1]), last.dt)} :
           /\ r.turn.ships[kn[1]] = ships[kn[1]]
           /\ r.bodies[kn[1]] = bodies[kn[1]]

\* a vessel on its last lap, moving, was destroyed and its slot spawned into
\* in the same admin queue
C9_Witness ==
  /\ last.op = "evolve"
  /\ 0 \in DOMAIN last.this.ships
  /\ last.this.ships[0].lap >= 1
  /\ last.this.ships[0].velocity # <<0, 0>>
  /\ 0 \in DOMAIN last.pool
  /\ Len(last.this.serverEvents) = 2
  /\ last.this.serverEvents[1] = [type |-> DESTROY_PLAYER, val |-> 0]
  /\ last.this.serverEvents[2].type = SPAWN_PLAYER
  /\ last.this.serverEvents[2].val = 0
  /\ ships[0].lap = 0

\* what a pool body may hold from a previous tick or occupant
Residues ==
  {[position |-> <<12300, -4500>>, velocity |-> <<77, -5>>, angle |-> 2,
    angularVelocity |-> 3, force |-> <<10, -20>>],
   [position |-> <<9012, 5200>>, velocity |-> <<0, 300>>, angle |-> 0,
    angularVelocity |-> 0, force |-> <<0, 0>>]}

\* the pool with the bodies of the occupied slots replaced as c says: by a
\* residue body <<b>>, or by no body <<>>
AltPool(pool, occupied, c) ==
  [i \in ((DOMAIN pool) \ occupied) \cup {j \in occupied : c[j] # <<>>} |->
     IF i \in occupied THEN c[i][1] ELSE pool[i]]

\* the pools that differ from pool in the bodies of the occupied slots only
AltPools(pool, occupied) ==
  {AltPool(pool, occupied, c) :
     c \in [occupied -> {<<>>} \cup {<<b>> : b \in Residues}]}

\* C10: evolve returns the same Turn (vessels, phase, countdown) whatever
\* the pool bodies of the occupied slots held before the call, and whether
\* the pool held a body for an occupied slot at all.
C10_DeterministicOverPoolResidue ==
  last.op = "evolve" =>
    \A alt \in AltPools(last.pool, DOMAIN last.this.ships) :
      evolve(last.this, alt, last.dt).turn = ThisTurn

\* the call found a moving body in the pool for a vessel with input queued
C10_Witness ==
  /\ last.op = "evolve"
  /\ \E i \in (DOMAIN last.this.ships) \cap (DOMAIN last.pool) :
       /\ last.pool[i].velocity # <<0, 0>>
       /\ eventsOf(last.this.events, i) # <<>>
       /\ i \in DOMAIN ships
       /\ ships[i].velocity # last.pool[i].velocity

\* C11: the Turn evolve returns has no queued input event for any slot and
\* no admin event, whatever the evolved Turn had queued: every event is
\* consumed by the one call that follows its recording.
C11_QueuesClearedByEvolve ==
  last.op = "evolve" => events = <<>> /\ serverEvents = <<>>

\* the evolved Turn had input events and admin events queued
C11_Witness ==
  /\ last.op = "evolve"
  /\ \E i \in DOMAIN last.this.events : last.this.events[i] # <<>>
  /\ last.this.serverEvents # <<>>
  /\ events = <<>>
  /\ serverEvents = <<>>

\* the value of flag t once the queue q is folded over the stored input
Held(ship, q, t) ==
  IF LastOfType(q, t) # 0 THEN q[LastOfType(q, t)].val ELSE ship.input[t]

\* no thruster acts on the vessel in this call: it is barred from control,
\* or neither the gas nor a lean flag is set once the queue is folded
Unpowered(ship, q, phase) ==
  \/ Barred(ship, phase)
  \/ ~Held(ship, q, "gas") /\ ~Held(ship, q, "leanL") /\ ~Held(ship, q, "leanR")

CellAround(coord) ==
  CHOOSE k \in -100 .. 100 :
    /\ 2 * coord >= (2 * k - 1) * 100 * CELL_EDGE
    /\ 2 * coord < (2 * k + 1) * 100 * CELL_EDGE

\* the checkpoint the grid gives at position, old when the cell is absent or
\* holds no number
GridCheckpoint(position, old) ==
  IF Track(CellAround(position[2]), CellAround(position[1])) \in {"1", "2", "3"}
  THEN ToNumber(Track(CellAround(position[2]), CellAround(position[1])))[1]
  ELSE old

\* the lap change the pair (old, new) of checkpoints stands for
LapDelta(old, new) ==
  IF new > old + 1 THEN 1 ELSE IF new < old - 1 THEN -1 ELSE 0

TurnsNow(q, t) == LastOfType(q, t) # 0 /\ q[LastOfType(q, t)].val

\* C14: turning is edge-triggered.  A vessel whose queue holds no turnL and
\* no turnR event keeps its heading through input application, whatever turn
\* flag its stored input carries; a vessel allowed to steer turns by one
\* quarter turn (90 degrees) for each turn flag its queue sets this tick,
\* left counted negative, and by nothing else.
C14_TurnIsEdgeTriggered ==
  last.op = "evolve" =>
    \A w \in {admit(last.this, last.pool)} :
      \A i \in DOMAIN w.ships :
        \A q \in {eventsOf(last.this.events, i)} :
          /\ (LastOfType(q, "turnL") = 0 /\ LastOfType(q, "turnR") = 0)
               => bodies[i].angle = w.ships[i].angle
          /\ ~Barred(w.ships[i], last.this.state)
               => bodies[i].angle = w.ships[i].angle
                                    - (IF TurnsNow(q, "turnL") THEN 1 ELSE 0)
                                    + (IF TurnsNow(q, "turnR") THEN 1 ELSE 0)

\* a racing vessel whose stored input has turnL set from the tick before
\* went through a tick without turn events, heading unchanged
C14_Witness ==
  /\ last.op = "evolve"
  /\ \E i \in (DOMAIN last.this.ships) \cap (DOMAIN ships) :
       /\ last.this.ships[i].input["turnL"]
       /\ ~Barred(last.this.ships[i], last.this.state)
       /\ LastOfType(eventsOf(last.this.events, i), "turnL") = 0
       /\ LastOfType(eventsOf(last.this.events, i), "turnR") = 0
       /\ ships[i].angle = last.this.ships[i].angle
       /\ ships[i].angle # -1

\* the position in the admin queue of the last event for slot k, 0 when the
\* queue holds none
LastFor(sevs, k) ==
  IF \E n \in DOMAIN sevs : sevs[n].val = k
  THEN CHOOSE n \in DOMAIN sevs :
         sevs[n].val = k /\ \A m \in DOMAIN sevs : sevs[m].val = k => m <= n
  ELSE 0

\* the slot is given a body by the call: it held a vessel or is spawned into
Embodied(this, k) ==
  \/ k \in DOMAIN this.ships
  \/ \E n \in DOMAIN this.serverEvents :
       this.serverEvents[n].type = SPAWN_PLAYER /\ this.serverEvents[n].val = k

\* what the call owes slot k when sev is the last admin event for it and q
\* is the slot's input queue
AdminThenInput(this, k, sev, q, dt) ==
  IF sev.type = SPAWN_PLAYER
  THEN /\ k \in DOMAIN ships
       /\ ships[k].username = sev.username
       /\ this.state # RESULTS_SCREEN =>
            /\ \A t \in InputTypes : ships[k].input[t] = TurnsNow(q, t)
            /\ (~TurnsNow(q, "gas") /\ ~TurnsNow(q, "leanL") /\ ~TurnsNow(q, "leanR"))
                 => bodies[k].velocity = <<0, 0>>
            /\ (TurnsNow(q, "gas") /\ \A t \in InputTypes \ {"gas"} : ~TurnsNow(q, t))
                 => bodies[k].velocity = <<-((FORCE * dt) \div 50), 0>>
  ELSE /\ k \notin DOMAIN ships
       /\ Embodied(this, k) => bodies[k].velocity = <<0, 0>>

C16_MatchReturnsToInProgress ==
  /\ [](state # IN_PROGRESS => away <= FINISH_COUNTDOWN_S + RESULTS_SCREEN_S)
  /\ (state # IN_PROGRESS) ~> (state = IN_PROGRESS)

\* a whole cycle: the results screen ran out and the race restarted
C16_Witness ==
  /\ last.op = "evolve"
  /\ last.this.state = RESULTS_SCREEN
  /\ state = IN_PROGRESS
  /\ away = 0
  /\ ticks >= FINISH_COUNTDOWN_S + RESULTS_SCREEN_S
  /\ calls > 0

\* the slots whose vessel satisfies the finish predicate in the returned
\* Turn and did not in the evolved one (a reset Turn has none)
Finishers ==
  {i \in (DOMAIN ships) \cap (DOMAIN last.this.ships) :
     ships[i].lap > MAX_LAPS /\ last.this.ships[i].lap <= MAX_LAPS}

\* C17: an evolve call emits a completion record exactly when it moves the
\* phase out of IN_PROGRESS, and then one only, for the newly finished
\* vessel of the lowest slot; a call on a Turn in FINISH_COUNTDOWN or
\* RESULTS_SCREEN emits none, whichever vessels newly finish in it, and does
\* not restart the countdown: the counter goes down by one, or to
\* RESULTS_SCREEN_S on entering RESULTS_SCREEN.
C17_OneRecordOnLeavingInProgress ==
  last.op = "evolve" =>
    /\ Len(last.log) <= 1
    /\ last.log # <<>> <=> (last.this.state = IN_PROGRESS /\ state # IN_PROGRESS)
    /\ last.log # <<>> =>
         /\ Finishers # {}
         /\ \A i \in Finishers : last.log[1].slot <= i
         /\ last.log[1].slot \in Finishers
         /\ last.log[1].username = ships[last.log[1].slot].username
    /\ last.this.state # IN_PROGRESS =>
         \/ counter = last.this.counter - 1
         \/ /\ last.this.state = FINISH_COUNTDOWN
            /\ state = RESULTS_SCREEN
            /\ counter = RESULTS_SCREEN_S

\* two vessels crossed the finish line in one tick: one record, for slot 0
C17_Witness ==
  /\ last.op = "evolve"
  /\ last.this.state = IN_PROGRESS
  /\ Finishers = {0, 1}
  /\ Len(last.log) = 1
  /\ last.log[1].slot = 0

\* a vessel newly finished in a call on a FINISH_COUNTDOWN Turn, unrecorded
C17_LateFinisherWitness ==
  /\ last.op = "evolve"
  /\ last.this.state = FINISH_COUNTDOWN
  /\ Finishers # {}
  /\ last.log = <<>>

\* the slots of w keep their occupant in the returned Turn, and each
\* occupied slot has its body at the same index of the pool
SameSlots(w) ==
  /\ DOMAIN ships = DOMAIN w.ships
  /\ \A i \in DOMAIN w.ships :
       /\ ships[i].username = w.ships[i].username
       /\ ships[i].color = w.ships[i].color
       /\ i \in DOMAIN w.bodies
       /\ i \in DOMAIN bodies

\* C18: evolve preserves slot identity: each vessel of the working list, as
\* the administrative events leave it, is in the returned Turn at the same
\* slot with the same username and color, each slot vacant then is vacant in
\* the returned Turn, and each occupied slot has a body at its index of the
\* pool.
C18_SlotIdentityPreserved ==
  last.op = "evolve" => \A w \in {admit(last.this, last.pool)} : SameSlots(w)

\* slot 0 was vacated by a DESTROY_PLAYER of the call and its body stayed in
\* the pool; the vessel of slot 1 is returned at slot 1
C18_Witness ==
  /\ last.op = "evolve"
  /\ 0 \in DOMAIN last.this.ships
  /\ 0 \in DOMAIN bodies
  /\ DOMAIN ships = {1}
  /\ ships[1].username = last.this.ships[1].username

TimedLaps(ship) ==
  /\ ship.lap <= ship.currentLaptime
  /\ Len(ship.laptimes) = ship.currentLaptime + 1

\* C19: in every Turn each vessel has lap <= currentLaptime and exactly
\* currentLaptime + 1 entries in laptimes, across forward and backward
\* crossings of the finish line and across match resets.
C19_LaptimesIndexedByCurrentLaptime ==
  \A i \in DOMAIN ships : TimedLaps(ships[i])

\* a lap re-gained after a backward crossing: lap goes up to currentLaptime
\* and no laptime entry is added
C19_Witness ==
  /\ last.op = "evolve"
  /\ \E i \in (DOMAIN ships) \cap (DOMAIN last.this.ships) :
       /\ last.this.ships[i].lap < last.this.ships[i].currentLaptime
       /\ ships[i].lap = last.this.ships[i].lap + 1
       /\ Len(ships[i].laptimes) = Len(last.this.ships[i].laptimes)

\* a match reset of a vessel that had timed more than one lap
C19_ResetWitness ==
  /\ last.op = "evolve"
  /\ last.this.state = RESULTS_SCREEN
  /\ state = IN_PROGRESS
  /\ \E i \in (DOMAIN ships) \cap (DOMAIN last.this.ships) :
       /\ Len(last.this.ships[i].laptimes) > 1
       /\ ships[i].laptimes = <<0>>

====
